---- MODULE Spec2Model ----
(***************************************************************************)
(* Invite attribution and invite-cache consistency of the StationManager   *)
(* Discord bot.                                                            *)
(*                                                                         *)
(* Modelled code:                                                          *)
(*   src/cogs/invite_tracking.py  InviteTrackingCog.on_member_join,        *)
(*                                on_invite_create, on_invite_delete       *)
(*   src/bot.py                   create_bot (bot.invite_cache = {}),      *)
(*                                on_ready (invite seeding loop and the    *)
(*                                start of the background tasks),          *)
(*                                check_birthdays_at_midnight,             *)
(*                                check_daily_events_at_8am                *)
(*   src/manager.py, src/cogs/birthdays.py  on_member_join (join logging)  *)
(*                                                                         *)
(* The bot runs on one cooperative event loop: a handler runs atomically   *)
(* from one await to the next.  Each action below is one such atomic       *)
(* segment.  `await guild.invites()` is split into the request being       *)
(* issued, the platform producing the answer (the moment the snapshot is   *)
(* taken) and the handler resuming with that answer.                       *)
(***************************************************************************)
EXTENDS Integers, Sequences, FiniteSets, TLC

\* ------------------------------------------------------------------------
\* Bounds
\* ------------------------------------------------------------------------
\* member arrivals in a run
MaxJoins == 2
\* on_ready events in a run (the gateway fires it again after a reconnect)
MaxReady == 1
\* on_ready handlers that may overlap in a run about the background tasks
MaxBoot == 2
\* the last hour of the clock in a run of the background tasks
MaxHour == 60

\* ------------------------------------------------------------------------
\* Universe
\* ------------------------------------------------------------------------
Guilds == {1, 2}

\* Invite codes are assigned by the platform and are unique platform-wide.
GuildCodes(g) == IF g = 1 THEN {"A", "B"} ELSE {"X"}

NoInviter == "none"

\* invite.inviter: the member who created the code; the platform omits it
\* for some invites
Creator(c) == IF c = "A" THEN "alice" ELSE IF c = "X" THEN "bob" ELSE NoInviter

NoCode == "None"

JoinIds == 1..MaxJoins

ReadyIds == 1..MaxReady

BootIds == 1..MaxBoot

\* discord.Invite as far as the handlers read it
InviteRec(c, u) == [code |-> c, uses |-> u, inviter |-> Creator(c)]

\* The answer to `await guild.invites()` while none has been produced
NoResp == [ok |-> FALSE, err |-> "pending", invites |-> <<>>]

FetchErrors == {"Forbidden", "HTTPException"}

EmptyDict == [c \in {} |-> InviteRec("A", 0)]

NoSnap == [has |-> FALSE, map |-> EmptyDict]

VARIABLES
    guilds,        \* bot.guilds, in the order on_ready iterates it
    platform,      \* the platform's invites: guild -> code -> [st, uses]
    invite_cache,  \* bot.invite_cache: a dict guild id -> dict code -> invite
    createQ,       \* invite_create notifications dispatched, handler not yet run
    deleteQ,       \* invite_delete notifications dispatched, handler not yet run
    joins,         \* the on_member_join handler instances
    ready,         \* the on_ready handler instances
    now,           \* datetime.now(IST), in whole hours since a midnight
    tasks_started, \* bot.tasks_started
    tasks,         \* the background tasks created with bot.loop.create_task
    announced,     \* per kind of task, the hour of its last announcement
    legacy,        \* the on_member_join handler instances of the legacy modules
    invite_logs    \* the 'join' records inserted into the invite_logs collection

\* The state of the background tasks and of the legacy join logging
taskVars == <<now, tasks_started, tasks, announced>>

legacyVars == <<legacy, invite_logs>>

vars == <<guilds, platform, invite_cache, createQ, deleteQ, joins, ready,
          taskVars, legacyVars>>

\* ------------------------------------------------------------------------
\* Pure helpers
\* ------------------------------------------------------------------------

\* The live invites of guild g as the platform holds them
LiveInvites(g) ==
    { InviteRec(c, platform[g][c].uses) :
        c \in { d \in GuildCodes(g) : platform[g][d].st = "live" } }

\* Every order in which a list of the records of S can be enumerated
Orderings(S) ==
    { s \in [1..Cardinality(S) -> S] :
        \A i, j \in 1..Cardinality(S) : i # j => s[i] # s[j] }

\* {invite.code: invite for invite in invites}: the last record of a code wins
DictOf(invites) ==
    [ c \in { invites[i].code : i \in DOMAIN invites } |->
        invites[ CHOOSE i \in DOMAIN invites :
                    /\ invites[i].code = c
                    /\ \A j \in DOMAIN invites : j > i => invites[j].code # c ] ]

\* Variants of the comparison of line 88: the operands swapped, the
\* comparison left out, and >= for >
MatchingIdxSwapped(cache, g, invites) ==
    IF g \in DOMAIN cache
    THEN { i \in DOMAIN invites :
             /\ invites[i].code \in DOMAIN cache[g]
             /\ cache[g][invites[i].code].uses > invites[i].uses }
    ELSE {}

MatchingIdxAnyCached(cache, g, invites) ==
    IF g \in DOMAIN cache
    THEN { i \in DOMAIN invites : invites[i].code \in DOMAIN cache[g] }
    ELSE {}

MatchingIdxGe(cache, g, invites) ==
    IF g \in DOMAIN cache
    THEN { i \in DOMAIN invites :
             /\ invites[i].code \in DOMAIN cache[g]
             /\ invites[i].uses >= cache[g][invites[i].code].uses }
    ELSE {}

\* A variant that reads a missing entry as an empty dict whose codes all
\* count as cached with no uses
MatchingIdxNoEntryZero(cache, g, invites) ==
    IF g \in DOMAIN cache
    THEN { i \in DOMAIN invites :
             /\ invites[i].code \in DOMAIN cache[g]
             /\ invites[i].uses > cache[g][invites[i].code].uses }
    ELSE { i \in DOMAIN invites : invites[i].uses > 0 }

\* The fetched invites the scan of on_member_join would stop at: their code
\* is cached with a smaller uses count.  Empty when the guild has no entry.
MatchingIdx(cache, g, invites) ==
    IF g \in DOMAIN cache
    THEN { i \in DOMAIN invites :
             /\ invites[i].code \in DOMAIN cache[g]
             /\ invites[i].uses > cache[g][invites[i].code].uses }
    ELSE {}

\* A variant of lines 85-92 without the break of line 92, which keeps the
\* last such invite
FindUsedInviteLast(cache, g, invites) ==
    LET M == MatchingIdx(cache, g, invites)
    IN  IF M = {} THEN 0 ELSE CHOOSE i \in M : \A j \in M : i >= j

\* Lines 85-92: the index of the first such invite in list order, 0 if none
FindUsedInvite(cache, g, invites) ==
    LET M == MatchingIdx(cache, g, invites)
    IN  IF M = {} THEN 0 ELSE CHOOSE i \in M : \A j \in M : i <= j

\* A variant of line 95 placed inside the block of line 85, which runs only
\* when the guild already has an entry
CacheReplaceIfPresent(cache, g, invites) ==
    IF g \in DOMAIN cache
    THEN [ cache EXCEPT ![g] = DictOf(invites) ]
    ELSE cache

\* A variant of line 95 that rebuilds the whole cache around the guild's
\* fresh snapshot
CacheReplaceWhole(cache, g, invites) == [ h \in {g} |-> DictOf(invites) ]

\* A variant of line 95 that updates the entry in place and so keeps the
\* codes the fetched list no longer has
CacheReplaceMerge(cache, g, invites) ==
    LET base == IF g \in DOMAIN cache THEN cache[g] ELSE EmptyDict
        new == DictOf(invites)
    IN  [ h \in (DOMAIN cache) \cup {g} |->
            IF h = g
            THEN [ c \in (DOMAIN base) \cup (DOMAIN new) |->
                     IF c \in DOMAIN new THEN new[c] ELSE base[c] ]
            ELSE cache[h] ]

\* self.bot.invite_cache[guild.id] = {invite.code: invite for invite in ...}
CacheReplace(cache, g, invites) ==
    [ h \in (DOMAIN cache) \cup {g} |-> IF h = g THEN DictOf(invites) ELSE cache[h] ]

\* A variant of line 216 that files the record under its inviter
CacheUpsertByInviter(cache, g, inv) ==
    LET base == IF g \in DOMAIN cache THEN cache[g] ELSE EmptyDict
    IN  [ h \in (DOMAIN cache) \cup {g} |->
            IF h = g
            THEN [ c \in (DOMAIN base) \cup {inv.inviter} |->
                     IF c = inv.inviter THEN inv ELSE base[c] ]
            ELSE cache[h] ]

\* A variant of lines 212-216 that initialises the guild's entry on every
\* event
CacheUpsertReset(cache, g, inv) ==
    [ h \in (DOMAIN cache) \cup {g} |->
        IF h = g THEN [ c \in {inv.code} |-> inv ] ELSE cache[h] ]

\* A variant of lines 212-216 in which the record is added in an else branch
\* of the initialisation of the guild's entry
CacheUpsertElse(cache, g, inv) ==
    IF g \in DOMAIN cache
    THEN [ cache EXCEPT ![g] =
             [ c \in (DOMAIN cache[g]) \cup {inv.code} |->
                 IF c = inv.code THEN inv ELSE cache[g][c] ] ]
    ELSE [ h \in (DOMAIN cache) \cup {g} |-> IF h = g THEN EmptyDict ELSE cache[h] ]

\* on_invite_create, lines 212-216
CacheUpsert(cache, g, inv) ==
    LET base == IF g \in DOMAIN cache THEN cache[g] ELSE EmptyDict
    IN  [ h \in (DOMAIN cache) \cup {g} |->
            IF h = g
            THEN [ c \in (DOMAIN base) \cup {inv.code} |->
                     IF c = inv.code THEN inv ELSE base[c] ]
            ELSE cache[h] ]

\* A variant of lines 235-236 that initialises the guild's entry first, as
\* on_invite_create does
CacheRemoveInit(cache, g, code) ==
    LET base == IF g \in DOMAIN cache THEN cache[g] ELSE EmptyDict
    IN  [ h \in (DOMAIN cache) \cup {g} |->
            IF h = g THEN [ c \in (DOMAIN base) \ {code} |-> base[c] ] ELSE cache[h] ]

\* on_invite_delete, lines 235-236
CacheRemove(cache, g, code) ==
    IF g \in DOMAIN cache /\ code \in DOMAIN cache[g]
    THEN [ cache EXCEPT ![g] = [ c \in (DOMAIN cache[g]) \ {code} |-> cache[g][c] ] ]
    ELSE cache

\* The codes of guild g in the cache
Cached(cache, g) == IF g \in DOMAIN cache THEN DOMAIN cache[g] ELSE {}

\* The cache entry a join handler compared the fetched list against
OldSnap(cache, g) ==
    IF g \in DOMAIN cache THEN [has |-> TRUE, map |-> cache[g]] ELSE NoSnap

\* A join handler: its position, its locals (guild, current_invites as resp,
\* invite_used, inviter, log_channel, msg), the entry it read (old) and the
\* number of fetches it issued.  log_channel is whether line 109 resolved a
\* channel.  resp and old are dropped once the handler is past
\* the log step, which no longer reads them.
\* While the handler is suspended on its fetch, `deleted` collects the codes
\* whose on_invite_delete ran since the fetch was issued and `created` the
\* codes whose on_invite_create ran since the answer was produced.
IdleJoin ==
    [ pc |-> "idle", guild |-> 0, resp |-> NoResp, old |-> NoSnap,
      invite_used |-> NoCode, inviter |-> NoInviter,
      fetches |-> 0, log_channel |-> FALSE, msg |-> "",
      created |-> {}, deleted |-> {} ]

\* A legacy join handler: its position, its locals (new_invites as resp,
\* inviter) and the cached codes its outer loop has still to visit
IdleLegacy ==
    [ pc |-> "idle", guild |-> 0, resp |-> NoResp, todo |-> <<>>, inviter |-> NoInviter ]

\* No announcement sent yet
Never == -1

\* An on_ready handler: its position in the seeding loop, the answer to the
\* fetch of guilds[idx], and `created` as for a join handler
IdleReady == [ pc |-> "idle", idx |-> 0, resp |-> NoResp, created |-> {} ]

\* The handlers' record of an on_invite_create for code c of guild g
NoteCreate(js, g, c) ==
    [ t \in DOMAIN js |->
        IF js[t].pc = "responded" /\ js[t].guild = g
        THEN [js[t] EXCEPT !.created = @ \cup {c}]
        ELSE js[t] ]

NoteCreateReady(rs, gl, g, c) ==
    [ r \in DOMAIN rs |->
        IF rs[r].pc = "responded" /\ gl[rs[r].idx] = g
        THEN [rs[r] EXCEPT !.created = @ \cup {c}]
        ELSE rs[r] ]

\* The handlers' record of an on_invite_delete for code c of guild g
NoteDelete(js, g, c) ==
    [ t \in DOMAIN js |->
        IF js[t].pc \in {"fetching", "responded"} /\ js[t].guild = g
        THEN [js[t] EXCEPT !.deleted = @ \cup {c}, !.created = @ \ {c}]
        ELSE js[t] ]

NoteDeleteReady(rs, gl, g, c) ==
    [ r \in DOMAIN rs |->
        IF rs[r].pc = "responded" /\ gl[rs[r].idx] = g
        THEN [rs[r] EXCEPT !.created = @ \ {c}]
        ELSE rs[r] ]

\* ------------------------------------------------------------------------
\* Initial state: bot.invite_cache = {} (create_bot), nothing in flight.
\* The platform may already hold invites when the bot connects.
\* ------------------------------------------------------------------------
\* The guilds the bot is a member of
BotGuildSet == { guilds[i] : i \in DOMAIN guilds }

InitSlots(gs, g) ==
    IF g \in gs
    THEN [ GuildCodes(g) -> {[st |-> "none", uses |-> 0], [st |-> "live", uses |-> 0]} ]
    ELSE { [ c \in GuildCodes(g) |-> [st |-> "none", uses |-> 0] ] }

InitWith(gl) ==
    /\ guilds = gl
    /\ LET gs == { gl[i] : i \in DOMAIN gl }
       IN  platform \in { p \in [Guilds -> UNION {InitSlots(gs, g) : g \in Guilds}] :
                             \A g \in Guilds : p[g] \in InitSlots(gs, g) }
    /\ invite_cache = [g \in {} |-> EmptyDict]
    /\ createQ = {}
    /\ deleteQ = {}
    /\ joins = [t \in JoinIds |-> IdleJoin]
    /\ ready = [r \in ReadyIds |-> IdleReady]
    /\ now = 0
    /\ tasks_started = FALSE
    /\ tasks = <<>>
    /\ announced = [k \in {"birthdays", "events"} |-> Never]
    /\ legacy = [t \in JoinIds |-> IdleLegacy]
    /\ invite_logs = <<>>

\* The bot is in one guild
Init == InitWith(<<1>>)

\* ------------------------------------------------------------------------
\* The platform (environment)
\* ------------------------------------------------------------------------

\* Somebody creates invite c in guild g; the gateway dispatches invite_create
\* with a zero-use invite.  A code is never issued twice.
PlatformCreate(g, c) ==
    /\ platform[g][c].st = "none"
    /\ platform' = [platform EXCEPT ![g][c] = [st |-> "live", uses |-> 0]]
    /\ createQ' = createQ \cup {[guild |-> g, invite |-> InviteRec(c, 0)]}
    /\ UNCHANGED <<taskVars, legacyVars, guilds, invite_cache, deleteQ, joins, ready>>

\* Somebody deletes invite c in guild g; the gateway dispatches invite_delete.
PlatformDelete(g, c) ==
    /\ platform[g][c].st = "live"
    /\ platform' = [platform EXCEPT ![g][c] = [st |-> "gone", uses |-> 0]]
    /\ deleteQ' = deleteQ \cup {[guild |-> g, code |-> c]}
    /\ UNCHANGED <<taskVars, legacyVars, guilds, invite_cache, createQ, joins, ready>>

\* The answers `await guild.invites()` can get for guild g right now
FetchAnswers(g) ==
    (IF g \in BotGuildSet
     THEN { [ok |-> TRUE, err |-> "", invites |-> s] : s \in Orderings(LiveInvites(g)) }
     ELSE {})
    \cup { [ok |-> FALSE, err |-> e, invites |-> <<>>] : e \in FetchErrors }

\* ------------------------------------------------------------------------
\* on_member_join (src/cogs/invite_tracking.py)
\* ------------------------------------------------------------------------

\* A member arrives in guild g through invite `via` (NoCode: through no
\* listed invite).  The gateway dispatches events in order, so the handler
\* starts after the handlers of the earlier notifications of the guild ran
\* their synchronous bodies; it runs lines 71-82 and suspends on the fetch.
MemberJoinStart(t, g, via) ==
    /\ joins[t].pc = "idle"
    /\ \A u \in JoinIds : u < t => joins[u].pc # "idle"
    /\ \A n \in createQ \cup deleteQ : n.guild # g
    /\ \/ via = NoCode /\ platform' = platform
       \/ /\ via \in GuildCodes(g)
          /\ platform[g][via].st = "live"
          /\ platform' = [platform EXCEPT ![g][via].uses = @ + 1]
    /\ joins' = [joins EXCEPT ![t] =
                   [IdleJoin EXCEPT !.pc = "fetching", !.guild = g, !.fetches = 1]]
    /\ UNCHANGED <<taskVars, legacyVars, guilds, invite_cache, createQ, deleteQ, ready>>

\* The same arrival when the handlers of all earlier arrivals have returned
SerialJoinStart(t, g, via) ==
    /\ \A u \in JoinIds : joins[u].pc \in {"idle", "done"}
    /\ MemberJoinStart(t, g, via)

\* The platform answers the fetch of join handler t
JoinFetchRespond(t) ==
    /\ joins[t].pc = "fetching"
    /\ \E a \in FetchAnswers(joins[t].guild) :
          joins' = [joins EXCEPT ![t].pc = "responded", ![t].resp = a]
    /\ UNCHANGED <<taskVars, legacyVars, guilds, platform, invite_cache, createQ, deleteQ, ready>>

\* A variant of the except clause that stores the empty list a failed fetch
\* left behind
CacheAfterFailedFetchEmptied(cache, g) == CacheReplace(cache, g, <<>>)

\* Lines 97-98 (and src/bot.py 285-286): the except clause logs a warning
\* and leaves the cache alone
CacheAfterFailedFetch(cache, g) == cache

\* A variant of the except clause that issues the fetch again
JoinAfterFailedFetchRetry(j, cache) ==
    [j EXCEPT !.pc = "fetching", !.resp = NoResp, !.fetches = @ + 1,
              !.created = {}, !.deleted = {}]

\* The join handler after the except clause: nothing selected, on to line 105
JoinAfterFailedFetch(j, cache) ==
    [j EXCEPT !.pc = "config", !.created = {}, !.deleted = {},
              !.old = OldSnap(cache, j.guild)]

\* The handler resumes: lines 85-95 when the fetch returned, 97-98 when it
\* raised; either way it goes on to line 105 and suspends there
JoinResume(t) ==
    /\ joins[t].pc = "responded"
    /\ LET g == joins[t].guild
           r == joins[t].resp
           k == FindUsedInvite(invite_cache, g, r.invites)
       IN  IF r.ok
           THEN /\ joins' = [joins EXCEPT
                       ![t].pc = "config",
                       ![t].created = {}, ![t].deleted = {},
                       ![t].old = OldSnap(invite_cache, g),
                       ![t].invite_used = IF k = 0 THEN NoCode ELSE r.invites[k].code,
                       ![t].inviter = IF k = 0 THEN NoInviter ELSE r.invites[k].inviter]
                /\ invite_cache' = CacheReplace(invite_cache, g, r.invites)
           ELSE /\ joins' = [joins EXCEPT ![t] = JoinAfterFailedFetch(joins[t], invite_cache)]
                /\ invite_cache' = CacheAfterFailedFetch(invite_cache, g)
    /\ UNCHANGED <<taskVars, legacyVars, guilds, platform, createQ, deleteQ, ready>>

\* A variant of lines 112-115 without the else branch, so that an arrival
\* with no inviter ends in the handler of line 154
JoinMsgOrError(inviter) == IF inviter # NoInviter THEN "invited" ELSE "error"

\* The text of the join message, lines 112-115
JoinMsg(inviter) == IF inviter # NoInviter THEN "invited" ELSE "unknown"

\* Lines 105-117: the configuration is read and the join is logged when the
\* guild has a log channel that resolves; msg is what was sent ("nolog":
\* nothing), and the handler suspends in the welcome section
JoinLog(t) ==
    /\ joins[t].pc = "config"
    /\ \E hasLog \in BOOLEAN :
          joins' = [joins EXCEPT ![t].pc = "welcome",
                       ![t].resp = NoResp, ![t].old = NoSnap,
                       ![t].log_channel = hasLog,
                       ![t].msg = IF hasLog THEN JoinMsg(joins[t].inviter) ELSE "nolog"]
    /\ UNCHANGED <<taskVars, legacyVars, guilds, platform, invite_cache, createQ, deleteQ, ready>>

\* Lines 125-152: the welcome message, after which the handler returns
JoinWelcome(t) ==
    /\ joins[t].pc = "welcome"
    /\ joins' = [joins EXCEPT ![t].pc = "done", ![t].log_channel = FALSE,
                               ![t].msg = ""]
    /\ UNCHANGED <<taskVars, legacyVars, guilds, platform, invite_cache, createQ, deleteQ, ready>>

\* ------------------------------------------------------------------------
\* on_invite_create / on_invite_delete (src/cogs/invite_tracking.py)
\* ------------------------------------------------------------------------
OnInviteCreate(n) ==
    /\ n \in createQ
    /\ invite_cache' = CacheUpsert(invite_cache, n.guild, n.invite)
    /\ createQ' = createQ \ {n}
    /\ joins' = NoteCreate(joins, n.guild, n.invite.code)
    /\ ready' = NoteCreateReady(ready, guilds, n.guild, n.invite.code)
    /\ UNCHANGED <<taskVars, legacyVars, guilds, platform, deleteQ>>

\* The delete notification of a code is dispatched after its create notification
OnInviteDelete(n) ==
    /\ n \in deleteQ
    /\ \A m \in createQ : m.invite.code # n.code
    /\ invite_cache' = CacheRemove(invite_cache, n.guild, n.code)
    /\ deleteQ' = deleteQ \ {n}
    /\ joins' = NoteDelete(joins, n.guild, n.code)
    /\ ready' = NoteDeleteReady(ready, guilds, n.guild, n.code)
    /\ UNCHANGED <<taskVars, legacyVars, guilds, platform, createQ>>

\* ------------------------------------------------------------------------
\* on_ready (src/bot.py), the invite seeding loop
\* ------------------------------------------------------------------------
ReadyStart(r) ==
    /\ ready[r].pc = "idle"
    /\ \A q \in ReadyIds : q < r => ready[q].pc = "done"
    /\ ready' = [ready EXCEPT ![r] = [IdleReady EXCEPT !.pc = "fetching", !.idx = 1]]
    /\ UNCHANGED <<taskVars, legacyVars, guilds, platform, invite_cache, createQ, deleteQ, joins>>

ReadyFetchRespond(r) ==
    /\ ready[r].pc = "fetching"
    /\ \E a \in FetchAnswers(guilds[ready[r].idx]) :
          ready' = [ready EXCEPT ![r].pc = "responded", ![r].resp = a]
    /\ UNCHANGED <<taskVars, legacyVars, guilds, platform, invite_cache, createQ, deleteQ, joins>>

\* A variant of the seeding loop whose except clause leaves the loop
ReadyCommitStop(r) ==
    /\ ready[r].pc = "responded"
    /\ LET g == guilds[ready[r].idx]
           a == ready[r].resp
       IN  invite_cache' = IF a.ok THEN CacheReplace(invite_cache, g, a.invites)
                                   ELSE CacheAfterFailedFetch(invite_cache, g)
    /\ ready' = [ready EXCEPT
                   ![r] = IF ready[r].idx < Len(guilds) /\ ready[r].resp.ok
                          THEN [IdleReady EXCEPT !.pc = "fetching", !.idx = ready[r].idx + 1]
                          ELSE [IdleReady EXCEPT !.pc = "done"]]
    /\ UNCHANGED <<taskVars, legacyVars, guilds, platform, createQ, deleteQ, joins>>

\* Lines 283-286, then the next iteration up to its fetch
ReadyCommit(r) ==
    /\ ready[r].pc = "responded"
    /\ LET g == guilds[ready[r].idx]
           a == ready[r].resp
       IN  invite_cache' = IF a.ok THEN CacheReplace(invite_cache, g, a.invites)
                                   ELSE CacheAfterFailedFetch(invite_cache, g)
    /\ ready' = [ready EXCEPT
                   ![r] = IF ready[r].idx < Len(guilds)
                          THEN [IdleReady EXCEPT !.pc = "fetching", !.idx = ready[r].idx + 1]
                          ELSE [IdleReady EXCEPT !.pc = "done"]]
    /\ UNCHANGED <<taskVars, legacyVars, guilds, platform, createQ, deleteQ, joins>>

\* ------------------------------------------------------------------------
\* Specifications
\* ------------------------------------------------------------------------

\* What the platform, a started join handler and the invite handlers can do
Events ==
    \/ \E g \in BotGuildSet : \E c \in GuildCodes(g) : PlatformCreate(g, c)
    \/ \E g \in BotGuildSet : \E c \in GuildCodes(g) : PlatformDelete(g, c)
    \/ \E t \in JoinIds : JoinFetchRespond(t)
    \/ \E t \in JoinIds : JoinResume(t)
    \/ \E t \in JoinIds : JoinLog(t)
    \/ \E t \in JoinIds : JoinWelcome(t)
    \/ \E n \in createQ : OnInviteCreate(n)
    \/ \E n \in deleteQ : OnInviteDelete(n)

\* The seeding loop of on_ready
Seeding ==
    \/ \E r \in ReadyIds : ReadyStart(r)
    \/ \E r \in ReadyIds : ReadyFetchRespond(r)
    \/ \E r \in ReadyIds : ReadyCommit(r)

\* Arrivals far enough apart that their handlers do not overlap; the seeding
\* loop, the invite handlers and the platform interleave freely with them
Next ==
    \/ \E t \in JoinIds : \E g \in BotGuildSet : \E via \in GuildCodes(g) \cup {NoCode} :
          SerialJoinStart(t, g, via)
    \/ Events
    \/ Seeding

Spec == Init /\ [][Next]_vars

\* Arrivals at any time, so that join handlers overlap and their fetches
\* complete in any order, in a run without a reconnect
NextConc ==
    \/ \E t \in JoinIds : \E g \in BotGuildSet : \E via \in GuildCodes(g) \cup {NoCode} :
          MemberJoinStart(t, g, via)
    \/ Events

SpecConc == Init /\ [][NextConc]_vars

\* Arrivals and invite events without a reconnect
NextJoin ==
    \/ \E t \in JoinIds : \E g \in BotGuildSet : \E via \in GuildCodes(g) \cup {NoCode} :
          SerialJoinStart(t, g, via)
    \/ Events

\* The event loop resumes a handler whose await has completed, and every
\* request to the platform, the configuration store or a channel is answered
\* or fails: each step of a started join handler is eventually taken
JoinFairness ==
    \A t \in JoinIds :
       /\ WF_vars(JoinFetchRespond(t))
       /\ WF_vars(JoinResume(t))
       /\ WF_vars(JoinLog(t))
       /\ WF_vars(JoinWelcome(t))

SpecLive == Init /\ [][NextJoin]_vars /\ JoinFairness

\* The bot is removed from guild g (kicked, or the guild is deleted).  No
\* listener of the repository handles the event, so only bot.guilds changes.
GuildRemove(g) ==
    /\ g \in BotGuildSet
    /\ guilds' = SelectSeq(guilds, LAMBDA h : h # g)
    /\ UNCHANGED <<taskVars, legacyVars, platform, invite_cache, createQ, deleteQ, joins, ready>>

\* Arrivals and invite events in a guild the bot may be removed from
NextLeave ==
    \/ NextJoin
    \/ \E g \in BotGuildSet : GuildRemove(g)

SpecLeave == Init /\ [][NextLeave]_vars

\* Start-up and reconnects of a bot that is in two guilds, with the invite
\* events of both guilds
NextSeed ==
    \/ Seeding
    \/ \E g \in BotGuildSet : \E c \in GuildCodes(g) : PlatformCreate(g, c)
    \/ \E g \in BotGuildSet : \E c \in GuildCodes(g) : PlatformDelete(g, c)
    \/ \E n \in createQ : OnInviteCreate(n)
    \/ \E n \in deleteQ : OnInviteDelete(n)

SpecSeed == InitWith(<<1, 2>>) /\ [][NextSeed]_vars

\* The bot is in two guilds, whose events interleave
SpecTwo == InitWith(<<1, 2>>) /\ [][NextJoin]_vars

\* ------------------------------------------------------------------------
\* The background tasks: src/bot.py, on_ready lines 305-331 and the loops of
\* lines 183-254
\* ------------------------------------------------------------------------

TaskKinds == {"birthdays", "events"}

\* A task as create_task leaves it: about to compute its first wait
NewTask(kind) == [kind |-> kind, pc |-> "compute", wake |-> 0, then |-> "announce"]

\* A variant of line 306 that does not consult the flag
ShouldCreateTasksAlways(started) == TRUE

\* Line 306: if not bot.tasks_started
ShouldCreateTasks(started) == ~started

\* on_ready is dispatched, at start-up or after a reconnect, whether or not
\* an earlier on_ready handler has returned; it runs up to its first fetch
ReadyStartAny(r) ==
    /\ ready[r].pc = "idle"
    /\ ready' = [ready EXCEPT ![r] = [IdleReady EXCEPT !.pc = "fetching", !.idx = 1]]
    /\ UNCHANGED <<taskVars, legacyVars, guilds, platform, invite_cache, createQ,
                   deleteQ, joins>>

\* Lines 289-331: the handler, past the seeding loop, resumes from the last
\* await of the configuration loop and runs the task block, which has no
\* await between the test of line 306 and the assignment of line 329
ReadyTasks(r) ==
    /\ ready[r].pc = "done"
    /\ IF ShouldCreateTasks(tasks_started)
       THEN /\ tasks' = tasks \o <<NewTask("birthdays"), NewTask("events")>>
            /\ tasks_started' = TRUE
       ELSE UNCHANGED <<tasks, tasks_started>>
    /\ ready' = [ready EXCEPT ![r].pc = "returned"]
    /\ UNCHANGED <<now, announced, legacyVars, guilds, platform, invite_cache,
                   createQ, deleteQ, joins>>

\* The process after create_bot, with room for MaxBoot on_ready handlers
InitBoot ==
    /\ guilds = <<1>>
    /\ platform \in { p \in [Guilds -> UNION {InitSlots({1}, g) : g \in Guilds}] :
                          \A g \in Guilds : p[g] \in InitSlots({1}, g) }
    /\ invite_cache = [g \in {} |-> EmptyDict]
    /\ createQ = {}
    /\ deleteQ = {}
    /\ joins = [t \in JoinIds |-> IdleJoin]
    /\ ready = [r \in BootIds |-> IdleReady]
    /\ now = 0
    /\ tasks_started = FALSE
    /\ tasks = <<>>
    /\ announced = [k \in TaskKinds |-> Never]
    /\ legacy = [t \in JoinIds |-> IdleLegacy]
    /\ invite_logs = <<>>

\* on_ready handlers that overlap, each seeding the cache and then reaching
\* the task block
NextBoot ==
    \/ \E r \in BootIds : ReadyStartAny(r)
    \/ \E r \in BootIds : ReadyFetchRespond(r)
    \/ \E r \in BootIds : ReadyCommit(r)
    \/ \E r \in BootIds : ReadyTasks(r)

SpecBoot == InitBoot /\ [][NextBoot]_vars

\* timedelta(days=1), in hours
HoursPerDay == 24

\* replace(hour=8, ...)
EventsHour == 8

\* asyncio.sleep(3600) after an error, in hours
RetryHours == 1

\* now.hour, and now.replace(hour=0, minute=0, second=0, microsecond=0)
Hour(t) == t % HoursPerDay

Midnight(t) == t - Hour(t)

\* The time a task computes to sleep until: lines 198-200 for the birthday
\* task, lines 232-239 for the events task
NextWake(kind, t) ==
    IF kind = "birthdays"
    THEN Midnight(t) + HoursPerDay
    ELSE LET next_8am == Midnight(t) + HoursPerDay + EventsHour
         IN  IF Hour(t) >= EventsHour THEN next_8am + HoursPerDay ELSE next_8am

\* The top of the loop down to the await of asyncio.sleep
TaskCompute(i) ==
    /\ tasks[i].pc = "compute"
    /\ tasks' = [tasks EXCEPT ![i].pc = "sleeping",
                              ![i].wake = NextWake(tasks[i].kind, now),
                              ![i].then = "announce"]
    /\ UNCHANGED <<now, tasks_started, announced, legacyVars, guilds, platform,
                   invite_cache, createQ, deleteQ, joins, ready>>

\* The sleep is over.  After the computed wait the cog sends the
\* announcement, or raises and the task sleeps an hour (lines 213-215,
\* 252-254); after that hour the loop starts over.
TaskWake(i) ==
    /\ tasks[i].pc = "sleeping"
    /\ tasks[i].wake = now
    /\ IF tasks[i].then = "announce"
       THEN \/ /\ announced' = [announced EXCEPT ![tasks[i].kind] = now]
               /\ tasks' = [tasks EXCEPT ![i].pc = "compute"]
            \/ /\ tasks' = [tasks EXCEPT ![i].wake = now + RetryHours,
                                          ![i].then = "compute"]
               /\ UNCHANGED announced
       ELSE /\ tasks' = [tasks EXCEPT ![i].pc = "compute", ![i].then = "announce"]
            /\ UNCHANGED announced
    /\ UNCHANGED <<now, tasks_started, legacyVars, guilds, platform, invite_cache,
                   createQ, deleteQ, joins, ready>>

\* An hour passes while every task sleeps towards a later time
Tick ==
    /\ now < MaxHour
    /\ \A i \in DOMAIN tasks : tasks[i].pc = "sleeping" /\ tasks[i].wake > now
    /\ now' = now + 1
    /\ UNCHANGED <<tasks_started, tasks, announced, legacyVars, guilds, platform,
                   invite_cache, createQ, deleteQ, joins, ready>>

\* on_ready has returned at some hour of the day: the guild's (empty) invite
\* list is cached and both tasks have been created
InitDaily ==
    /\ guilds = <<1>>
    /\ platform = [g \in Guilds |-> [c \in GuildCodes(g) |-> [st |-> "none", uses |-> 0]]]
    /\ invite_cache = [g \in {1} |-> EmptyDict]
    /\ createQ = {}
    /\ deleteQ = {}
    /\ joins = [t \in JoinIds |-> IdleJoin]
    /\ ready = [r \in ReadyIds |-> [IdleReady EXCEPT !.pc = "returned"]]
    /\ now \in 0..(HoursPerDay - 1)
    /\ tasks_started = TRUE
    /\ tasks = <<NewTask("birthdays"), NewTask("events")>>
    /\ announced = [k \in TaskKinds |-> Never]
    /\ legacy = [t \in JoinIds |-> IdleLegacy]
    /\ invite_logs = <<>>

NextDaily ==
    \/ \E i \in DOMAIN tasks : TaskCompute(i)
    \/ \E i \in DOMAIN tasks : TaskWake(i)
    \/ Tick

SpecDaily == InitDaily /\ [][NextDaily]_vars

\* ------------------------------------------------------------------------
\* The join logging of the legacy modules: on_member_join of src/manager.py
\* (lines 196-240) and of src/cogs/birthdays.py (lines 17-68), which share
\* their detection loop.  The handler instance t handles member t.
\* ------------------------------------------------------------------------

\* A member arrives when the handlers of all earlier arrivals have returned;
\* the handler runs up to its first await, the read of the configuration
LegacyJoinStart(t, g, via) ==
    /\ legacy[t].pc = "idle"
    /\ \A u \in JoinIds : u < t => legacy[u].pc = "done"
    /\ \/ via = NoCode /\ platform' = platform
       \/ /\ via \in GuildCodes(g)
          /\ platform[g][via].st = "live"
          /\ platform' = [platform EXCEPT ![g][via].uses = @ + 1]
    /\ legacy' = [legacy EXCEPT ![t] = [IdleLegacy EXCEPT !.pc = "config", !.guild = g]]
    /\ UNCHANGED <<taskVars, invite_logs, guilds, invite_cache, createQ, deleteQ,
                   joins, ready>>

\* The welcome section, then the test for a log channel: without one the
\* handler returns, with one it issues the fetch
LegacyConfig(t) ==
    /\ legacy[t].pc = "config"
    /\ \E hasLog \in BOOLEAN :
          legacy' = [legacy EXCEPT ![t].pc = IF hasLog THEN "fetching" ELSE "done"]
    /\ UNCHANGED <<taskVars, invite_logs, guilds, platform, invite_cache, createQ,
                   deleteQ, joins, ready>>

\* The platform answers the fetch
LegacyFetchRespond(t) ==
    /\ legacy[t].pc = "fetching"
    /\ \E a \in FetchAnswers(legacy[t].guild) :
          legacy' = [legacy EXCEPT ![t].pc = "responded", ![t].resp = a]
    /\ UNCHANGED <<taskVars, invite_logs, guilds, platform, invite_cache, createQ,
                   deleteQ, joins, ready>>

\* The handler resumes.  A raised fetch ends it (manager.py lets the
\* exception pass, birthdays.py logs it); otherwise the outer loop starts
\* over the items of invite_cache.get(guild.id, {}), in the dict's order
LegacyScanBegin(t) ==
    /\ legacy[t].pc = "responded"
    /\ IF legacy[t].resp.ok
       THEN \E s \in Orderings(Cached(invite_cache, legacy[t].guild)) :
               legacy' = [legacy EXCEPT ![t].pc = "scanning", ![t].todo = s]
       ELSE legacy' = [legacy EXCEPT ![t].pc = "done", ![t].resp = NoResp]
    /\ UNCHANGED <<taskVars, invite_logs, guilds, platform, invite_cache, createQ,
                   deleteQ, joins, ready>>

\* The positions of the fetched list the inner loop stops at for cached
\* code c: same code, more uses than cached
LegacyMatches(t, c) ==
    { i \in DOMAIN legacy[t].resp.invites :
        /\ legacy[t].resp.invites[i].code = c
        /\ legacy[t].resp.invites[i].uses > invite_cache[legacy[t].guild][c].uses }

\* One iteration of the outer loop.  On a match the cached record is
\* replaced, a 'join' record is inserted and the break leaves the inner
\* loop only: the outer loop goes on with the next cached code.
LegacyScanNext(t) ==
    /\ legacy[t].pc = "scanning"
    /\ legacy[t].todo # <<>>
    /\ LET g == legacy[t].guild
           c == Head(legacy[t].todo)
           M == LegacyMatches(t, c)
       IN  IF M = {}
           THEN /\ legacy' = [legacy EXCEPT ![t].todo = Tail(@)]
                /\ UNCHANGED <<invite_cache, invite_logs>>
           ELSE LET i == CHOOSE i \in M : \A j \in M : i <= j
                    who == invite_cache[g][c].inviter
                IN  /\ legacy' = [legacy EXCEPT ![t].todo = Tail(@), ![t].inviter = who]
                    /\ invite_cache' = [invite_cache EXCEPT ![g][c] = legacy[t].resp.invites[i]]
                    /\ invite_logs' = Append(invite_logs,
                          [user_id |-> t, inviter_id |-> who, guild_id |-> g, action |-> "join"])
    /\ UNCHANGED <<taskVars, guilds, platform, createQ, deleteQ, joins, ready>>

\* The loop is over: the join message is sent and the handler returns
LegacyLog(t) ==
    /\ legacy[t].pc = "scanning"
    /\ legacy[t].todo = <<>>
    /\ legacy' = [legacy EXCEPT ![t].pc = "done", ![t].resp = NoResp]
    /\ UNCHANGED <<taskVars, invite_logs, guilds, platform, invite_cache, createQ,
                   deleteQ, joins, ready>>

\* Start-up seeding of the cache and arrivals handled by a legacy handler
NextLegacy ==
    \/ Seeding
    \/ \E t \in JoinIds : \E g \in BotGuildSet : \E via \in GuildCodes(g) \cup {NoCode} :
          LegacyJoinStart(t, g, via)
    \/ \E t \in JoinIds : LegacyConfig(t)
    \/ \E t \in JoinIds : LegacyFetchRespond(t)
    \/ \E t \in JoinIds : LegacyScanBegin(t)
    \/ \E t \in JoinIds : LegacyScanNext(t)
    \/ \E t \in JoinIds : LegacyLog(t)

SpecLegacy == Init /\ [][NextLegacy]_vars

\* ------------------------------------------------------------------------
\* Properties
\* ------------------------------------------------------------------------

\* Join handler t has just run lines 85-95 on a fetched list: its record
\* still holds the entry it compared against (old) and the list (resp)
Compared(t) == joins[t].pc = "config" /\ joins[t].resp.ok

FetchedCodes(t) ==
    { joins[t].resp.invites[i].code : i \in DOMAIN joins[t].resp.invites }

FetchedRec(t, c) ==
    joins[t].resp.invites[ CHOOSE i \in DOMAIN joins[t].resp.invites :
                              joins[t].resp.invites[i].code = c ]

\* The codes cached before the scan whose fetched uses count is larger
Increased(t) ==
    { c \in FetchedCodes(t) \cap DOMAIN joins[t].old.map :
        FetchedRec(t, c).uses > joins[t].old.map[c].uses }

\* Every fetched code other than c is cached with the same uses, or is new
\* with uses = 0
OthersQuiet(t, c) ==
    \A d \in FetchedCodes(t) \ {c} :
        IF d \in DOMAIN joins[t].old.map
        THEN FetchedRec(t, d).uses = joins[t].old.map[d].uses
        ELSE FetchedRec(t, d).uses = 0

\* C1: when exactly one code is both cached and fetched with a larger uses
\* count, the other fetched codes being unchanged or new with zero uses, the
\* arrival is attributed to that code and the inviter is that invite's.
C1_SingleCandidate ==
    \A t \in JoinIds :
        Compared(t) =>
            \A c \in Increased(t) :
                (Increased(t) = {c} /\ OthersQuiet(t, c)) =>
                    /\ joins[t].invite_used = c
                    /\ joins[t].inviter = FetchedRec(t, c).inviter

\* old {A: u}, fetched {A: u+1, B: 0}: A is selected, with A's inviter
C1_Witness ==
    \E t \in JoinIds :
        /\ Compared(t)
        /\ DOMAIN joins[t].old.map = {"A"}
        /\ FetchedCodes(t) = {"A", "B"}
        /\ FetchedRec(t, "A").uses = joins[t].old.map["A"].uses + 1
        /\ FetchedRec(t, "B").uses = 0
        /\ joins[t].invite_used = "A"
        /\ joins[t].inviter = Creator("A")

\* C2: when no fetched invite has a larger uses count than the one cached
\* for its code, no invite is selected, there is no inviter, and a join
\* that is logged without a selected invite reads 'inviter unknown'.
C2_NoIncreaseUnknown ==
    \A t \in JoinIds :
        /\ (Compared(t) /\ Increased(t) = {}) =>
               (joins[t].invite_used = NoCode /\ joins[t].inviter = NoInviter)
        /\ (joins[t].pc = "welcome" /\ joins[t].invite_used = NoCode) =>
               joins[t].msg \in {"unknown", "nolog"}

\* old {A: u}, fetched {A: u, B: 0}: the only difference is a new unused code
C2_Witness ==
    \E t \in JoinIds :
        /\ Compared(t)
        /\ DOMAIN joins[t].old.map = {"A"}
        /\ FetchedCodes(t) = {"A", "B"}
        /\ FetchedRec(t, "A").uses = joins[t].old.map["A"].uses
        /\ FetchedRec(t, "B").uses = 0
        /\ joins[t].invite_used = NoCode

\* The fetched list is the old entry with some of its codes removed
OnlyDeletions(t) ==
    /\ joins[t].old.has
    /\ FetchedCodes(t) \subseteq DOMAIN joins[t].old.map
    /\ FetchedCodes(t) # DOMAIN joins[t].old.map
    /\ \A c \in FetchedCodes(t) : FetchedRec(t, c).uses = joins[t].old.map[c].uses

\* C3: a code cached but absent from the fetched list is never selected, and
\* when missing codes are the only difference nothing is selected.
C3_DeletedNeverSelected ==
    \A t \in JoinIds :
        Compared(t) =>
            /\ \A c \in DOMAIN joins[t].old.map :
                  c \notin FetchedCodes(t) => joins[t].invite_used # c
            /\ OnlyDeletions(t) => joins[t].invite_used = NoCode

\* old {A: u, B: 0}, fetched {B: 0}: A was deleted, nothing is selected
C3_Witness ==
    \E t \in JoinIds :
        /\ Compared(t)
        /\ OnlyDeletions(t)
        /\ DOMAIN joins[t].old.map = {"A", "B"}
        /\ FetchedCodes(t) = {"B"}
        /\ platform[joins[t].guild]["A"].st = "gone"
        /\ joins[t].invite_used = NoCode

\* The step in which join handler t resumes with a fetched list
JoinCommits(t) ==
    /\ joins[t].pc = "responded"
    /\ joins[t].resp.ok
    /\ joins'[t].pc = "config"

\* Entry e holds exactly the records of list l
HoldsExactly(e, l) ==
    /\ DOMAIN e = { l[i].code : i \in DOMAIN l }
    /\ \A i \in DOMAIN l : e[l[i].code] = l[i]

\* C4: the step in which a join handler resumes with a fetched list leaves
\* the guild's cache entry holding exactly the fetched records.
C4_CacheIsFetched ==
    [][ \A t \in JoinIds :
          JoinCommits(t) =>
             /\ joins[t].guild \in DOMAIN invite_cache'
             /\ HoldsExactly(invite_cache'[joins[t].guild], joins[t].resp.invites) ]_vars

\* old {A: u, B: 0}, fetched {A: u+1, B: 0}: the entry is {A: u+1, B: 0}
C4_Witness ==
    \E t \in JoinIds :
        /\ Compared(t)
        /\ DOMAIN joins[t].old.map = {"A", "B"}
        /\ FetchedCodes(t) = {"A", "B"}
        /\ FetchedRec(t, "A").uses = joins[t].old.map["A"].uses + 1
        /\ HoldsExactly(invite_cache[joins[t].guild], joins[t].resp.invites)

\* C5: a commit of on_member_join never puts back a code whose
\* on_invite_delete ran while the handler was suspended on its fetch.
C5_NoResurrection ==
    [][ \A t \in JoinIds :
          JoinCommits(t) =>
             \A c \in joins[t].deleted :
                c \notin DOMAIN invite_cache'[joins[t].guild] ]_vars

\* The step in which on_ready handler r stores a fetched list
ReadyCommits(r) ==
    /\ ready[r].pc = "responded"
    /\ ready[r].resp.ok
    /\ ready'[r].pc # "responded"


\* C6: a commit of on_member_join or of the on_ready seeding keeps every
\* code whose on_invite_create ran after the platform produced the list being
\* committed (and that is still cached when the commit happens).
C6_CreateKept ==
    [][ /\ \A t \in JoinIds :
             JoinCommits(t) =>
                \A c \in joins[t].created \cap Cached(invite_cache, joins[t].guild) :
                   c \in Cached(invite_cache', joins[t].guild)
        /\ \A r \in ReadyIds :
             ReadyCommits(r) =>
                \A c \in ready[r].created \cap Cached(invite_cache, guilds[ready[r].idx]) :
                   c \in Cached(invite_cache', guilds[ready[r].idx]) ]_vars

\* C7: the step in which a handler resumes from a fetch that raised leaves
\* the whole cache as it was.
C7_FailedFetchKeepsCache ==
    [][ /\ \A t \in JoinIds :
             (joins[t].pc = "responded" /\ ~joins[t].resp.ok /\ joins'[t].pc # joins[t].pc)
                => invite_cache' = invite_cache
        /\ \A r \in ReadyIds :
             (ready[r].pc = "responded" /\ ~ready[r].resp.ok /\ ready'[r].pc # "responded")
                => invite_cache' = invite_cache ]_vars

\* A join handler resumed from a failed fetch while the guild had a
\* non-empty entry, which is still there
C7_Witness ==
    \E t \in JoinIds :
        /\ joins[t].pc = "config"
        /\ joins[t].resp.err \in FetchErrors
        /\ joins[t].old.has
        /\ joins[t].old.map # EmptyDict
        /\ joins[t].guild \in DOMAIN invite_cache
        /\ invite_cache[joins[t].guild] = joins[t].old.map

AttributedTo(g, c) ==
    { t \in JoinIds : joins[t].guild = g /\ joins[t].invite_used = c }

\* C9: the number of arrivals attributed to a code never exceeds the uses
\* count the platform holds for it.
C9_NoDoubleCount ==
    \A g \in BotGuildSet : \A c \in GuildCodes(g) :
        platform[g][c].st = "live" =>
            Cardinality(AttributedTo(g, c)) <= platform[g][c].uses

\* C10: from one cache state to the next, the uses count cached for a code
\* does not decrease, unless the step is an on_invite_create or
\* on_invite_delete handler.
C10_CachedUsesMonotonic ==
    [][ (createQ' = createQ /\ deleteQ' = deleteQ) =>
          \A g \in (DOMAIN invite_cache) \cap (DOMAIN invite_cache') :
             \A c \in (DOMAIN invite_cache[g]) \cap (DOMAIN invite_cache'[g]) :
                invite_cache'[g][c].uses >= invite_cache[g][c].uses ]_vars

\* The step in which on_invite_create handles notification n
CreateHandled(n) == n \in createQ /\ n \notin createQ'

\* The step in which on_invite_delete handles notification n
DeleteHandled(n) == n \in deleteQ /\ n \notin deleteQ'

\* C11: handling an invite-created notification a second time right after
\* the first leaves the cache as the first handling left it, whatever the
\* cache was before, a guild without an entry included.
C11_CreateIdempotent ==
    [][ \A n \in createQ :
          CreateHandled(n) =>
             /\ n.guild \in DOMAIN invite_cache'
             /\ n.invite.code \in DOMAIN invite_cache'[n.guild]
             /\ CacheUpsert(invite_cache', n.guild, n.invite) = invite_cache' ]_vars

\* on_invite_create has run for a guild that had no entry (no seeding and
\* no arrival has happened), and running it again changes nothing
C11_Witness ==
    /\ createQ = {}
    /\ \A t \in JoinIds : joins[t].pc = "idle"
    /\ \A r \in ReadyIds : ready[r].pc = "idle"
    /\ \E g \in DOMAIN invite_cache : \E c \in DOMAIN invite_cache[g] :
          /\ invite_cache[g][c] = InviteRec(c, 0)
          /\ CacheUpsert(invite_cache, g, InviteRec(c, 0)) = invite_cache

\* C12: on_invite_delete for a code that is not cached, or for a guild
\* without an entry, leaves the whole cache as it was and creates no entry;
\* handling a delete notification a second time changes nothing either.
C12_DeleteAbsentNoop ==
    [][ \A n \in deleteQ :
          DeleteHandled(n) =>
             /\ (n.guild \notin DOMAIN invite_cache
                   \/ n.code \notin DOMAIN invite_cache[n.guild])
                  => invite_cache' = invite_cache
             /\ CacheRemove(invite_cache', n.guild, n.code) = invite_cache' ]_vars

\* on_invite_delete has run for a guild that never had an entry, and there
\* is still none
C12_Witness ==
    /\ deleteQ = {}
    /\ \E g \in BotGuildSet :
          /\ g \notin DOMAIN invite_cache
          /\ \E c \in GuildCodes(g) : platform[g][c].st = "gone"

\* C13: a step of on_member_join, on_invite_create or on_invite_delete for
\* one guild leaves the cache entry of every other guild as it was (present
\* or not, and with the same records), however the events of the guilds
\* interleave.
C13_OtherGuildsUntouched ==
    [][ /\ \A t \in JoinIds :
             joins'[t].pc # joins[t].pc =>
                \A h \in Guilds \ {joins'[t].guild} :
                   OldSnap(invite_cache', h) = OldSnap(invite_cache, h)
        /\ \A n \in createQ :
             CreateHandled(n) =>
                \A h \in Guilds \ {n.guild} :
                   OldSnap(invite_cache', h) = OldSnap(invite_cache, h)
        /\ \A n \in deleteQ :
             DeleteHandled(n) =>
                \A h \in Guilds \ {n.guild} :
                   OldSnap(invite_cache', h) = OldSnap(invite_cache, h) ]_vars

\* An arrival in guild 1 has committed its snapshot while guild 2 has a
\* cached invite, which is still there
C13_Witness ==
    \E t \in JoinIds :
       /\ Compared(t)
       /\ joins[t].guild = 1
       /\ joins[t].resp.invites # <<>>
       /\ 2 \in DOMAIN invite_cache
       /\ "X" \in DOMAIN invite_cache[2]

\* invite.created_at, which no handler reads: the codes of a guild are named
\* in the order the platform issued them
CreatedAt(c) == IF c = "A" THEN 1 ELSE IF c = "B" THEN 2 ELSE 3

\* The rise of code c between the cached snapshot and the fetched list
Delta(t, c) == FetchedRec(t, c).uses - joins[t].old.map[c].uses

\* C14: when several codes have risen since the cached snapshot, the
\* arrival is attributed to the one that rose most and, among equal rises,
\* to the one created last.
C14_LargestDeltaNewest ==
    \A t \in JoinIds :
       (Compared(t) /\ Cardinality(Increased(t)) >= 2) =>
          /\ joins[t].invite_used \in Increased(t)
          /\ \A d \in Increased(t) \ {joins[t].invite_used} :
                \/ Delta(t, joins[t].invite_used) > Delta(t, d)
                \/ /\ Delta(t, joins[t].invite_used) = Delta(t, d)
                   /\ CreatedAt(joins[t].invite_used) > CreatedAt(d)

\* The code the scan of lines 85-92 selects from list s against cache
SelectedCode(cache, g, s) ==
    LET k == FindUsedInvite(cache, g, s)
    IN  IF k = 0 THEN NoCode ELSE s[k].code

\* The cache the handler of task t compared its fetched list with
ComparedCache(t) ==
    IF joins[t].old.has
    THEN [ h \in {joins[t].guild} |-> joins[t].old.map ]
    ELSE [ h \in {} |-> EmptyDict ]

\* The records the platform returned to task t, without their order
FetchedSet(t) == { joins[t].resp.invites[i] : i \in DOMAIN joins[t].resp.invites }

\* Two codes have risen by the same amount
TiedCandidates(t) ==
    \E c, d \in Increased(t) : c # d /\ Delta(t, c) = Delta(t, d)

\* C15: with the cached snapshot and the set of fetched records fixed and
\* two candidates of equal rise, the same code is selected in whatever
\* order the fetched records are enumerated.
C15_OrderIndependent ==
    \A t \in JoinIds :
       (Compared(t) /\ TiedCandidates(t)) =>
          \A s \in Orderings(FetchedSet(t)) :
             SelectedCode(ComparedCache(t), joins[t].guild, s) = joins[t].invite_used

\* The fetched codes that have uses but are missing from the cached snapshot
NewUsed(t) ==
    { c \in FetchedCodes(t) \ DOMAIN joins[t].old.map : FetchedRec(t, c).uses > 0 }

\* C16: a fetched code with uses > 0 that the cached snapshot of the guild
\* does not hold counts as a candidate whose rise is its uses; when it is
\* the only code with a positive rise, the arrival is attributed to it.
C16_NewCodeCandidate ==
    \A t \in JoinIds :
       (Compared(t) /\ joins[t].old.has /\ Increased(t) = {}) =>
          \A c \in NewUsed(t) :
             NewUsed(t) = {c} =>
                /\ joins[t].invite_used = c
                /\ joins[t].inviter = Creator(c)

\* The positions of a join handler in the order it passes them
PcRank(pc) ==
    IF pc = "idle" THEN 0
    ELSE IF pc = "fetching" THEN 1
    ELSE IF pc = "responded" THEN 2
    ELSE IF pc = "config" THEN 3
    ELSE IF pc = "welcome" THEN 4
    ELSE 5

\* C17: every on_member_join whose fetch succeeds stores the fetched
\* snapshot as the guild's entry exactly once: in its resuming step, whether
\* or not an invite matched and whether or not the guild had an entry, and
\* in no other step, the log step under either configuration included (the
\* handler passes each position once).
C17_CommitExactlyOnce ==
    [][ \A t \in JoinIds :
          joins'[t].pc # joins[t].pc =>
             /\ PcRank(joins'[t].pc) = PcRank(joins[t].pc) + 1
             /\ IF JoinCommits(t)
                THEN /\ joins[t].guild \in DOMAIN invite_cache'
                     /\ invite_cache'[joins[t].guild] = DictOf(joins[t].resp.invites)
                ELSE invite_cache' = invite_cache ]_vars

\* A handler has committed a non-empty snapshot although nothing matched
\* and the guild had no entry
C17_Witness ==
    \E t \in JoinIds :
       /\ Compared(t)
       /\ ~joins[t].old.has
       /\ joins[t].invite_used = NoCode
       /\ joins[t].resp.invites # <<>>
       /\ joins[t].guild \in DOMAIN invite_cache
       /\ invite_cache[joins[t].guild] = DictOf(joins[t].resp.invites)

\* C18: a match on an invite that has no inviter is told apart, in what the
\* handler puts out, from an arrival that matched nothing: the message
\* "inviter unknown" goes out only when no invite was selected.
C18_AnonymousMatchDistinct ==
    \A t \in JoinIds :
       (joins[t].pc = "welcome" /\ joins[t].msg = JoinMsg(NoInviter)) =>
          joins[t].invite_used = NoCode

\* The two texts of a join message, lines 113 and 115
JoinMessages == {"invited", "unknown"}

Quiescent ==
    /\ createQ = {}
    /\ deleteQ = {}
    /\ \A t \in JoinIds : joins[t].pc \in {"idle", "done"}
    /\ \A r \in ReadyIds : ready[r].pc \in {"idle", "done"}

\* C20: once the bot has left a guild and every handler has returned, the
\* invite cache holds no entry for that guild.
C20_DiscardedOnLeave ==
    Quiescent => \A g \in DOMAIN invite_cache : g \in BotGuildSet

\* The tasks of kind k that have been created
TasksOf(k) == { i \in DOMAIN tasks : tasks[i].kind = k }

\* C23: the midnight birthday task and the 8 AM events task are created at
\* most once per process, however many on_ready handlers run and however
\* they overlap: the handler that finds tasks_started unset creates both and
\* sets it, and every other handler leaves the tasks as they are.
C23_TasksCreatedOnce ==
    /\ \A k \in TaskKinds : Cardinality(TasksOf(k)) <= 1
    /\ tasks_started <=> tasks # <<>>
    /\ (\E r \in DOMAIN ready : ready[r].pc = "returned") => Len(tasks) = 2

\* Two on_ready handlers have returned and there is one task of each kind
C23_Witness ==
    /\ \E r, q \in DOMAIN ready :
          r # q /\ ready[r].pc = "returned" /\ ready[q].pc = "returned"
    /\ \A k \in TaskKinds : Cardinality(TasksOf(k)) = 1

\* Task i leaves the computation of its wait in this step
Computes(i) == tasks[i].pc = "compute" /\ tasks'[i].pc = "sleeping"

\* C21: every wait the events task computes ends at the nearest 08:00 IST
\* strictly after the current time, so it is never longer than a day, and an
\* announcement follows the previous one by one day.
C21_DailyAt8 ==
    [][ /\ \A i \in DOMAIN tasks :
             (tasks[i].kind = "events" /\ Computes(i)) =>
                /\ tasks'[i].wake > now
                /\ Hour(tasks'[i].wake) = EventsHour
                /\ tasks'[i].wake - now <= HoursPerDay
        /\ (announced'["events"] # announced["events"] /\ announced["events"] # Never) =>
              announced'["events"] - announced["events"] = HoursPerDay ]_vars

\* C22: on_invite_create sets the record of the created code and of no
\* other; on_invite_delete removes the deleted code, if cached, and no
\* other; every other code of the guild keeps its record.
C22_OneCodePerEvent ==
    [][ /\ \A n \in createQ :
             CreateHandled(n) =>
                /\ Cached(invite_cache', n.guild) =
                      Cached(invite_cache, n.guild) \cup {n.invite.code}
                /\ invite_cache'[n.guild][n.invite.code] = n.invite
                /\ \A c \in Cached(invite_cache, n.guild) \ {n.invite.code} :
                      invite_cache'[n.guild][c] = invite_cache[n.guild][c]
        /\ \A n \in deleteQ :
             DeleteHandled(n) =>
                /\ Cached(invite_cache', n.guild) =
                      Cached(invite_cache, n.guild) \ {n.code}
                /\ \A c \in Cached(invite_cache', n.guild) :
                      invite_cache'[n.guild][c] = invite_cache[n.guild][c] ]_vars

\* on_invite_create has run for a code while a join handler was suspended,
\* and another code of the guild, used before, is still cached with its uses
C22_Witness ==
    \E t \in JoinIds : \E c \in joins[t].created :
       /\ joins[t].pc = "responded"
       /\ joins[t].guild \in DOMAIN invite_cache
       /\ c \in DOMAIN invite_cache[joins[t].guild]
       /\ \E d \in DOMAIN invite_cache[joins[t].guild] \ {c} :
             invite_cache[joins[t].guild][d].uses > 0

\* on_ready handler r leaves the iteration of its current guild in this step
SeedIterationEnds(r) == ready[r].pc = "responded" /\ ready'[r].pc # "responded"

\* C24: an iteration of the seeding loop whose fetch failed leaves the cache
\* entry of its guild as it was (none on first start-up) and goes on to the
\* next guild like one whose fetch returned; an iteration whose fetch
\* returned leaves the entry of its guild equal to the fetched list.
C24_SeedingContinues ==
    [][ \A r \in ReadyIds :
          SeedIterationEnds(r) =>
             LET g == guilds[ready[r].idx]
             IN  /\ IF ready[r].resp.ok
                    THEN /\ g \in DOMAIN invite_cache'
                         /\ invite_cache'[g] = DictOf(ready[r].resp.invites)
                    ELSE OldSnap(invite_cache', g) = OldSnap(invite_cache, g)
                 /\ IF ready[r].idx < Len(guilds)
                    THEN /\ ready'[r].pc = "fetching"
                         /\ ready'[r].idx = ready[r].idx + 1
                    ELSE ready'[r].pc = "done" ]_vars

\* The loop has ended: the fetch of guild 1 failed, which has no entry, and
\* guild 2, the next in the loop, has its invite cached
C24_Witness ==
    \E r \in ReadyIds :
       /\ ready[r].pc = "done"
       /\ \A q \in ReadyIds : q # r => ready[q].pc = "idle"
       /\ 1 \notin DOMAIN invite_cache
       /\ 2 \in DOMAIN invite_cache
       /\ "X" \in DOMAIN invite_cache[2]

\* C25: in every guild's entry the record filed under a code has that code,
\* so no two keys of an entry hold records of one code, whatever seeding,
\* arrivals, creations and deletions have happened.
C25_KeyIsCode ==
    \A g \in DOMAIN invite_cache :
       /\ \A c \in DOMAIN invite_cache[g] : invite_cache[g][c].code = c
       /\ \A c, d \in DOMAIN invite_cache[g] :
             invite_cache[g][c].code = invite_cache[g][d].code => c = d

\* After a seeding and an arrival the entry holds two codes, one of them
\* used
C25_Witness ==
    /\ \E r \in ReadyIds : ready[r].pc = "done"
    /\ \E t \in JoinIds : joins[t].pc = "done"
    /\ \E g \in DOMAIN invite_cache :
          /\ Cardinality(DOMAIN invite_cache[g]) = 2
          /\ \E c \in DOMAIN invite_cache[g] : invite_cache[g][c].uses > 0

\* The positions of the fetched list of task t whose code was cached with a
\* smaller uses count
RisenAt(t) ==
    { i \in DOMAIN joins[t].resp.invites :
        /\ joins[t].resp.invites[i].code \in DOMAIN joins[t].old.map
        /\ joins[t].resp.invites[i].uses >
              joins[t].old.map[joins[t].resp.invites[i].code].uses }

C27_NoEntryUnknownSeeds ==
    [][ \A t \in JoinIds :
          (JoinCommits(t) /\ joins[t].guild \notin DOMAIN invite_cache) =>
             /\ joins'[t].invite_used = NoCode
             /\ joins'[t].inviter = NoInviter
             /\ joins'[t].old = NoSnap
             /\ joins[t].guild \in DOMAIN invite_cache'
             /\ HoldsExactly(invite_cache'[joins[t].guild], joins[t].resp.invites) ]_vars

\* An arrival through a used invite found no entry: nothing was selected
\* and the entry now holds the invite with its uses
C27_Witness ==
    \E t \in JoinIds :
       /\ Compared(t)
       /\ ~joins[t].old.has
       /\ joins[t].invite_used = NoCode
       /\ \E i \in DOMAIN joins[t].resp.invites :
             /\ joins[t].resp.invites[i].uses > 0
             /\ invite_cache[joins[t].guild][joins[t].resp.invites[i].code]
                   = joins[t].resp.invites[i]

\* The 'join' records inserted for member m
JoinRecordsOf(m) == { i \in DOMAIN invite_logs : invite_logs[i].user_id = m }

\* C28: a legacy join handler inserts at most one 'join' record for the
\* member whose arrival it handles, however many cached codes have risen in
\* the fetched list.
C28_OneJoinRecord ==
    \A m \in JoinIds : Cardinality(JoinRecordsOf(m)) <= 1

====
